---- MODULE Spec2Model ----
(***************************************************************************)
(* Model of src/app.py, the Streamlit dashboard script of                  *)
(* global-power-analytics.  One run of the script is a chain of steps      *)
(* (load, country selector, fuel selector, filter, fuel summary, KPIs,     *)
(* map, markers, export, credits); a user interaction changes a widget     *)
(* value, stops the run in progress and reruns the script from the top     *)
(* with fresh script variables.  The cached dataset, the widget values     *)
(* held by the server's session and by the browser, and what the browser   *)
(* shows survive a rerun.  The server drops the values of widgets a run    *)
(* did not render when the run reaches the end of the script; the browser  *)
(* drops them when it handles the message that a run has ended, also when  *)
(* the run ended in an exception.  That message is in flight for a while,  *)
(* and the user may act before the browser has handled it.                 *)
(***************************************************************************)
EXTENDS Integers, Sequences, FiniteSets

VARIABLES
    csv_file,           \* the lines of global_power_plant_database.csv (cells are text)
    cache,              \* st.cache_data entry of load_data: <<>> (miss) or <<frame>>
    ui_country,         \* session value of the country selectbox: <<>> or <<c>>
    ui_fuels,           \* server session values of the fuel multiselects, one [options, value] per widget identity
    browser_fuels,      \* the values the browser holds for the fuel multiselects, one per widget identity
    screen_country,     \* the country selectbox on screen: <<>> or <<[options, value]>>
    screen_fuels,       \* the fuel multiselect on screen: <<>> or <<[options, value]>>
    screen_map,         \* the st_folium map is on screen
    finished_msg,       \* <<>>, or <<what the ended run rendered>>: the message in flight to the browser that a run has ended
    pc,                 \* position of the running script
    failed_at,          \* "" or the step whose call raised
    df,                 \* script variables, rebound on every run
    countries,
    selected_country,
    available_fuels,
    selected_fuels,
    region_df,
    capacity_stats,     \* <<>> while the name is unbound
    warning,            \* st.sidebar.warning was shown
    kpis,               \* <<>> or <<the three values passed to k1, k2, k3>>
    map_location,       \* <<>> or <<[lat, lon]>>, the location given to folium.Map
    groups,             \* the feature groups added to the map, with their markers
    table_view,         \* the frame shown by st.dataframe
    csv_bytes           \* <<>> or <<the export handed to st.download_button>>

vars == <<csv_file, cache, ui_country, ui_fuels, browser_fuels,
          screen_country, screen_fuels,
          screen_map, finished_msg, pc, failed_at, df, countries,
          selected_country, available_fuels, selected_fuels, region_df,
          capacity_stats, warning, kpis, map_location, groups, table_view,
          csv_bytes>>

-----------------------------------------------------------------------------
(* Bounds and vocabulary of the modelled input files.                      *)

MaxRows == 3

\* A missing or unparseable number (float NaN).  Every number of the input
\* vocabulary is a natural, so a negative value is free to stand for it.
NaN == 0 - 1

\* Python's str ordering of the vocabulary, as used by sorted().
Alphabet == <<"Biomass", "Brazil", "Coal", "India", "Solar">>

Rank(s) == CHOOSE i \in 1..Len(Alphabet) : Alphabet[i] = s

\* The lines of the modelled files.  A file has the six columns the script
\* reads, in the order name, country_long, primary_fuel, capacity_mw,
\* latitude, longitude.  Complete lines: India with every fuel
\* (coal plants of two sizes), Brazil with coal only.
CleanLines ==
    { [name |-> "Plant A", country_long |-> "India", primary_fuel |-> "Biomass",
       capacity_mw |-> "100", latitude |-> "20", longitude |-> "70"],
      [name |-> "Plant B", country_long |-> "India", primary_fuel |-> "Coal",
       capacity_mw |-> "50", latitude |-> "20", longitude |-> "70"],
      [name |-> "Plant C", country_long |-> "India", primary_fuel |-> "Coal",
       capacity_mw |-> "100", latitude |-> "20", longitude |-> "70"],
      [name |-> "Plant D", country_long |-> "India", primary_fuel |-> "Solar",
       capacity_mw |-> "50", latitude |-> "20", longitude |-> "70"],
      [name |-> "Plant E", country_long |-> "Brazil", primary_fuel |-> "Coal",
       capacity_mw |-> "50", latitude |-> "20", longitude |-> "70"] }

\* Lines that load_data must exclude: unparseable capacity, empty capacity,
\* empty latitude, empty longitude.
DirtyLines ==
    { [name |-> "Plant F", country_long |-> "India", primary_fuel |-> "Coal",
       capacity_mw |-> "abc", latitude |-> "20", longitude |-> "70"],
      [name |-> "Plant G", country_long |-> "India", primary_fuel |-> "Coal",
       capacity_mw |-> "", latitude |-> "20", longitude |-> "70"],
      [name |-> "Plant H", country_long |-> "India", primary_fuel |-> "Coal",
       capacity_mw |-> "50", latitude |-> "", longitude |-> "70"],
      [name |-> "Plant I", country_long |-> "India", primary_fuel |-> "Coal",
       capacity_mw |-> "50", latitude |-> "20", longitude |-> ""] }

CsvLines == CleanLines \cup DirtyLines

CsvFiles == UNION { [1..n -> CsvLines] : n \in 0..MaxRows }

-----------------------------------------------------------------------------
(* Generic helpers.                                                        *)

Range(s) == { s[i] : i \in 1..Len(s) }

RECURSIVE SumSeq(_)
SumSeq(s) == IF s = <<>> THEN 0 ELSE Head(s) + SumSeq(Tail(s))

\* Text to float: what read_csv's float parser and pd.to_numeric(errors=
\* 'coerce') give for a cell; anything that is not a number becomes NaN.
ParseNumber(cell) ==
    CASE cell \in {"20", "20.0"} -> 20
      [] cell \in {"50", "50.0"} -> 50
      [] cell \in {"70", "70.0"} -> 70
      [] cell \in {"100", "100.0"} -> 100
      [] OTHER -> NaN

\* Cells that read as integers.  The vocabulary has no fractional number.
IntegerText == {"20", "50", "70", "100"}

\* The dtype read_csv infers for a column of cells: int64 when every cell is
\* an integer, float64 when the others are empty, object when a cell is
\* neither.
InferDtype(cells) ==
    IF cells = <<>>
    THEN "object"
    ELSE IF \A i \in 1..Len(cells) : cells[i] \in IntegerText
    THEN "int64"
    ELSE IF \A i \in 1..Len(cells) : cells[i] \in IntegerText \cup {""}
         THEN "float64"
         ELSE "object"

\* The value read_csv stores for a cell of a column of that dtype: a number
\* (NaN for an empty cell) in a numeric column; in an object column the text
\* as a str, and the float NaN for an empty cell.
ReadCell(cell, dtype) ==
    IF dtype = "object"
    THEN IF cell = "" THEN <<"float", NaN>> ELSE <<"str", cell>>
    ELSE ParseNumber(cell)

\* pd.to_numeric(errors='coerce') on one value of a column of that dtype: a
\* number stays, a str is parsed and becomes NaN when it is not a number.
ToNumericCell(value, dtype) ==
    IF dtype # "object"
    THEN value
    ELSE IF value[1] = "str" THEN ParseNumber(value[2]) ELSE value[2]

\* The dtype of the column pd.to_numeric returns: a numeric column keeps
\* its dtype, an object column becomes int64, or float64 when a value was
\* coerced to NaN or was NaN.
ToNumericDtype(column, dtype) ==
    IF dtype # "object"
    THEN dtype
    ELSE IF \A i \in 1..Len(column) : ToNumericCell(column[i], dtype) # NaN
         THEN "int64"
         ELSE "float64"

\* Number to text, as DataFrame.to_csv writes a cell of a column of that
\* dtype: an int64 without a fraction, a float64 with one, NaN as nothing.
FormatNumber(x, dtype) ==
    IF dtype = "int64"
    THEN CASE x = 20 -> "20"
           [] x = 50 -> "50"
           [] x = 70 -> "70"
           [] x = 100 -> "100"
           [] OTHER -> ""
    ELSE CASE x = 20 -> "20.0"
           [] x = 50 -> "50.0"
           [] x = 70 -> "70.0"
           [] x = 100 -> "100.0"
           [] OTHER -> ""

\* Series.unique(): the distinct values in order of first appearance.
RECURSIVE Unique(_)
Unique(s) ==
    IF s = <<>> THEN <<>>
    ELSE LET front == Unique(SubSeq(s, 1, Len(s) - 1))
             last == s[Len(s)]
         IN  IF last \in Range(front) THEN front ELSE Append(front, last)

\* sorted() of a list of distinct strings.
Sorted(s) ==
    [i \in 1..Len(s) |->
        CHOOSE x \in Range(s) :
            Cardinality({ y \in Range(s) : Rank(y) < Rank(x) }) = i - 1]

Column(frame, col) == [i \in 1..Len(frame) |-> frame[i][col]]

\* frame[mask]: the rows whose mask entry is True, in the frame's order.
RECURSIVE BoolIndex(_, _)
BoolIndex(frame, mask) ==
    IF frame = <<>> THEN <<>>
    ELSE LET n == Len(frame)
             front == BoolIndex(SubSeq(frame, 1, n - 1), SubSeq(mask, 1, n - 1))
         IN  IF mask[n] THEN Append(front, frame[n]) ELSE front

-----------------------------------------------------------------------------
(* load_data.                                                              *)

\* pd.read_csv: one row per line, labelled by a RangeIndex; the dtype of
\* each of the three number columns is inferred from the whole column and
\* its cells are stored accordingly.  A frame is kept as its rows; every row
\* repeats the dtypes of the frame's number columns.
ReadCsv(file) ==
    LET dtypes == [capacity_mw |-> InferDtype(Column(file, "capacity_mw")),
                   latitude |-> InferDtype(Column(file, "latitude")),
                   longitude |-> InferDtype(Column(file, "longitude"))]
    IN  [i \in 1..Len(file) |->
            [idx |-> i - 1,
             name |-> file[i].name,
             country_long |-> file[i].country_long,
             primary_fuel |-> file[i].primary_fuel,
             capacity_mw |-> ReadCell(file[i].capacity_mw, dtypes.capacity_mw),
             latitude |-> ReadCell(file[i].latitude, dtypes.latitude),
             longitude |-> ReadCell(file[i].longitude, dtypes.longitude),
             dtypes |-> dtypes]]

\* df['capacity_mw'] = pd.to_numeric(df['capacity_mw'], errors='coerce')
ToNumeric(frame) ==
    [i \in 1..Len(frame) |->
        [frame[i] EXCEPT
            !.capacity_mw = ToNumericCell(@, frame[i].dtypes.capacity_mw),
            !.dtypes.capacity_mw =
                ToNumericDtype(Column(frame, "capacity_mw"), @)]]

DropNaLatLonOnly(frame, subset) ==
    BoolIndex(frame, [i \in 1..Len(frame) |->
        \A col \in subset \ {"capacity_mw"} : frame[i][col] # NaN])

\* df.dropna(subset=[...])
DropNa(frame, subset) ==
    BoolIndex(frame, [i \in 1..Len(frame) |->
        \A col \in subset : frame[i][col] # NaN])

load_data(file) ==
    DropNa(ToNumeric(ReadCsv(file)), {"latitude", "longitude", "capacity_mw"})

\* @st.cache_data: the function runs on a miss, a hit returns the stored frame.
CachedCall(entry, file) ==
    IF entry = <<>> THEN load_data(file) ELSE entry[1]

-----------------------------------------------------------------------------
(* Sidebar widgets.                                                        *)

\* list.index(x) raises ValueError when x is not in the list.
IndexRaises(list, x) == x \notin Range(list)

\* list.index(x), 0-based.
Index(list, x) == (CHOOSE i \in 1..Len(list) : list[i] = x) - 1

\* st.selectbox(label, options, index=index): the user's choice once one was
\* made, options[index] before.
Selectbox(session, options, index) ==
    IF session # <<>> /\ session[1] \in Range(options)
    THEN session[1]
    ELSE options[index + 1]

\* st.multiselect(label, options, default=default): the widget is identified
\* by its options, and the session holds one value per identity: the value
\* stored for these options, the default when there is none.
Multiselect(session, options, default) ==
    IF \E e \in session : e.options = options
    THEN (CHOOSE e \in session : e.options = options).value
    ELSE default

\* A new value of the multiselect with these options replaces the value
\* stored for that identity and no other.
SetValue(session, options, value) ==
    { e \in session : e.options # options }
        \cup { [options |-> options, value |-> value] }

\* The browser draws the multiselect the run rendered: it shows the value it
\* holds for that identity, and takes the widget's default when it holds
\* none.
Mount(browser, options, default) ==
    IF \E e \in browser : e.options = options
    THEN browser
    ELSE browser \cup { [options |-> options, value |-> default] }

\* A rerun request carries every widget value the browser holds: each one
\* replaces the server's value of the same identity, and the server keeps
\* its values of identities the browser does not send.
Receive(session, browser) ==
    { e \in session : \A b \in browser : b.options # e.options } \cup browser

\* Streamlit's clean-up: the value of a widget that is not rendered is
\* dropped.  `options` are the options of the rendered multiselect.  The
\* server does it when a run reaches the end of the script, not for a run
\* stopped by an interaction or by an exception; the browser does it
\* whenever a run ends, also in an exception.
DropStale(session, options) ==
    { e \in session : e.options = options }

\* A click on an entry of the multiselect: a chosen fuel is removed, another
\* one is appended to the choice.
Toggle(choice, fuel) ==
    IF fuel \in Range(choice)
    THEN SelectSeq(choice, LAMBDA f : f # fuel)
    ELSE Append(choice, fuel)

CountryMask(frame, country) ==
    [i \in 1..Len(frame) |-> frame[i].country_long = country]

\* sorted(df[df['country_long'] == selected_country]['primary_fuel'].unique())
AvailableFuels(frame, country) ==
    Sorted(Unique(Column(BoolIndex(frame, CountryMask(frame, country)),
                         "primary_fuel")))

-----------------------------------------------------------------------------
(* Data processing.                                                        *)

\* Series.isin(values)
IsIn(x, values) == x \in Range(values)

RegionDfEitherPredicate(frame, country, fuels) ==
    BoolIndex(frame, [i \in 1..Len(frame) |->
        frame[i].country_long = country \/ IsIn(frame[i].primary_fuel, fuels)])

\* df[(df['country_long'] == selected_country) & (df['primary_fuel'].isin(selected_fuels))]
RegionDf(frame, country, fuels) ==
    BoolIndex(frame, [i \in 1..Len(frame) |->
        frame[i].country_long = country /\ IsIn(frame[i].primary_fuel, fuels)])

FuelMask(frame, fuel) ==
    [i \in 1..Len(frame) |-> frame[i].primary_fuel = fuel]

GroupByLast(frame) ==
    LET keys == Sorted(Unique(Column(frame, "primary_fuel")))
    IN  [k \in 1..Len(keys) |->
            LET caps == Column(BoolIndex(frame, FuelMask(frame, keys[k])),
                               "capacity_mw")
            IN  [primary_fuel |-> keys[k], capacity_mw |-> caps[Len(caps)]]]

\* region_df.groupby('primary_fuel')['capacity_mw'].sum(): one entry per
\* group key, the keys in sorted order (groupby's sort=True).
GroupBySum(frame) ==
    LET keys == Sorted(Unique(Column(frame, "primary_fuel")))
    IN  [k \in 1..Len(keys) |->
            [primary_fuel |-> keys[k],
             capacity_mw |->
                SumSeq(Column(BoolIndex(frame, FuelMask(frame, keys[k])),
                              "capacity_mw"))]]

\* The rearrangements of a sequence of distinct entries.
Arrangements(s) ==
    { t \in [1..Len(s) -> Range(s)] : Range(t) = Range(s) }

SortValuesAscending(s) ==
    { t \in Arrangements(s) :
        \A i, j \in 1..Len(t) : i < j => t[i].capacity_mw <= t[j].capacity_mw }

\* sort_values(ascending=False) on capacity_mw with the default
\* kind='quicksort': the result is non-increasing, and the sort is not stable,
\* so every arrangement of equal values is a possible outcome.
SortValuesDescending(s) ==
    { t \in Arrangements(s) :
        \A i, j \in 1..Len(t) : i < j => t[i].capacity_mw >= t[j].capacity_mw }

\* The three values given to k1.metric, k2.metric and k3.metric.
Kpis(frame, stats) ==
    [total_mw |-> SumSeq(Column(frame, "capacity_mw")),
     plant_count |-> Len(frame),
     main_source |-> stats[1].primary_fuel]

\* Series.mean(): sum / count, kept as the exact fraction; with no rows it is
\* 0 / 0, which is NaN.
Mean(series) == [sum |-> SumSeq(series), count |-> Len(series)]

IsNaN(mean) == mean.count = 0

-----------------------------------------------------------------------------
(* Map markers and export.                                                 *)

colors ==
    [f \in {"Nuclear", "Coal", "Hydro", "Solar", "Gas", "Wind"} |->
        CASE f = "Nuclear" -> "purple"
          [] f = "Coal" -> "black"
          [] f = "Hydro" -> "blue"
          [] f = "Solar" -> "orange"
          [] f = "Gas" -> "red"
          [] f = "Wind" -> "green"]

\* colors.get(fuel, 'gray')
ColorGet(fuel) == IF fuel \in DOMAIN colors THEN colors[fuel] ELSE "gray"

\* One CircleMarker per row of data; `row` records which row the marker was
\* made from (the label iterrows() yields beside it).  The popup is kept as
\* the two texts the f-string puts into it: the row's name and its capacity,
\* written as a number of the column's dtype is.
CircleMarkers(data, fuel) ==
    [i \in 1..Len(data) |->
        [row |-> data[i].idx,
         location |-> <<data[i].latitude, data[i].longitude>>,
         popup |-> [name |-> data[i].name,
                    capacity_mw |-> FormatNumber(data[i].capacity_mw,
                                                 data[i].dtypes.capacity_mw)],
         color |-> ColorGet(fuel)]]

FeatureGroupsUnfiltered(frame, fuels) ==
    [g \in 1..Len(fuels) |->
        [name |-> fuels[g], markers |-> CircleMarkers(frame, fuels[g])]]

\* for fuel in selected_fuels: a FeatureGroup holding the markers of
\* region_df[region_df['primary_fuel'] == fuel]
FeatureGroups(frame, fuels) ==
    [g \in 1..Len(fuels) |->
        [name |-> fuels[g],
         markers |-> CircleMarkers(BoolIndex(frame, FuelMask(frame, fuels[g])),
                                   fuels[g])]]

\* The frame's columns, in the order of the file's header.
CsvColumns ==
    <<"name", "country_long", "primary_fuel", "capacity_mw", "latitude",
      "longitude">>

CsvLine(row) ==
    [name |-> row.name,
     country_long |-> row.country_long,
     primary_fuel |-> row.primary_fuel,
     capacity_mw |-> FormatNumber(row.capacity_mw, row.dtypes.capacity_mw),
     latitude |-> FormatNumber(row.latitude, row.dtypes.latitude),
     longitude |-> FormatNumber(row.longitude, row.dtypes.longitude)]

ToCsvSorted(frame) ==
    LET sorted == CHOOSE t \in SortValuesDescending(frame) : TRUE
    IN  [header |-> CsvColumns,
         lines |-> [i \in 1..Len(sorted) |-> CsvLine(sorted[i])]]

\* region_df.to_csv(index=False).encode('utf-8'): the header, then one line
\* per row in the frame's order, without the index.
ToCsv(frame) ==
    [header |-> CsvColumns,
     lines |-> [i \in 1..Len(frame) |-> CsvLine(frame[i])]]

-----------------------------------------------------------------------------
(* The script.                                                             *)

\* The script variables at the start of a run: nothing is bound yet.
FreshRun ==
    /\ pc' = "load"
    /\ failed_at' = ""
    /\ df' = <<>>
    /\ countries' = <<>>
    /\ selected_country' = ""
    /\ available_fuels' = <<>>
    /\ selected_fuels' = <<>>
    /\ region_df' = <<>>
    /\ capacity_stats' = <<>>
    /\ warning' = FALSE
    /\ kpis' = <<>>
    /\ map_location' = <<>>
    /\ groups' = <<>>
    /\ table_view' = <<>>
    /\ csv_bytes' = <<>>

Init ==
    /\ csv_file \in CsvFiles
    /\ cache = <<>>
    /\ ui_country = <<>>
    /\ ui_fuels = {}
    /\ browser_fuels = {}
    /\ screen_country = <<>>
    /\ screen_fuels = <<>>
    /\ screen_map = FALSE
    /\ finished_msg = <<>>
    /\ pc = "load"
    /\ failed_at = ""
    /\ df = <<>>
    /\ countries = <<>>
    /\ selected_country = ""
    /\ available_fuels = <<>>
    /\ selected_fuels = <<>>
    /\ region_df = <<>>
    /\ capacity_stats = <<>>
    /\ warning = FALSE
    /\ kpis = <<>>
    /\ map_location = <<>>
    /\ groups = <<>>
    /\ table_view = <<>>
    /\ csv_bytes = <<>>

\* df = load_data()
Load ==
    /\ pc = "load"
    /\ df' = CachedCall(cache, csv_file)
    /\ cache' = <<df'>>
    /\ pc' = "country"
    /\ UNCHANGED <<csv_file, ui_country, ui_fuels, browser_fuels, screen_country,
                   screen_fuels, screen_map, finished_msg, failed_at, countries,
                   selected_country, available_fuels, selected_fuels, region_df,
                   capacity_stats, warning, kpis, map_location, groups,
                   table_view, csv_bytes>>

\* countries = sorted(...); selected_country = st.sidebar.selectbox(...,
\* index=countries.index("India")): the ValueError of list.index ends the
\* run.  The selectbox is the first element a run sends to the browser, and
\* the browser handles what it receives in order: the message that the run
\* before has ended is handled before the selectbox is drawn.
CountrySelector ==
    /\ pc = "country"
    /\ finished_msg = <<>>
    /\ countries' = Sorted(Unique(Column(df, "country_long")))
    /\ IF IndexRaises(countries', "India")
       THEN /\ pc' = "failed"
            /\ failed_at' = "country"
            /\ finished_msg' = <<{}>>
            /\ UNCHANGED <<selected_country, screen_country>>
       ELSE /\ selected_country' =
                  Selectbox(ui_country, countries', Index(countries', "India"))
            /\ screen_country' = <<[options |-> countries',
                                    value |-> selected_country']>>
            /\ pc' = "fuels"
            /\ UNCHANGED <<failed_at, finished_msg>>
    /\ UNCHANGED <<csv_file, cache, ui_country, ui_fuels, browser_fuels,
                   screen_fuels, screen_map, df, available_fuels,
                   selected_fuels, region_df, capacity_stats, warning, kpis,
                   map_location, groups, table_view, csv_bytes>>

\* available_fuels = sorted(...); selected_fuels = st.sidebar.multiselect(...):
\* the script gets the server's value of the multiselect, the browser shows
\* its own.
FuelFilter ==
    /\ pc = "fuels"
    /\ available_fuels' = AvailableFuels(df, selected_country)
    /\ selected_fuels' = Multiselect(ui_fuels, available_fuels', available_fuels')
    /\ browser_fuels' = Mount(browser_fuels, available_fuels', available_fuels')
    /\ screen_fuels' =
          <<[options |-> available_fuels',
             value |-> Multiselect(browser_fuels', available_fuels',
                                   available_fuels')]>>
    /\ pc' = "filter"
    /\ UNCHANGED <<csv_file, cache, ui_country, ui_fuels, screen_country,
                   screen_map, finished_msg, failed_at, df,
                   countries, selected_country, region_df, capacity_stats,
                   warning, kpis, map_location, groups, table_view, csv_bytes>>

\* region_df = df[...]
Filter ==
    /\ pc = "filter"
    /\ region_df' = RegionDf(df, selected_country, selected_fuels)
    /\ pc' = "stats"
    /\ UNCHANGED <<csv_file, cache, ui_country, ui_fuels, browser_fuels, screen_country,
                   screen_fuels, screen_map, finished_msg, failed_at, df,
                   countries, selected_country, available_fuels, selected_fuels,
                   capacity_stats, warning, kpis, map_location, groups,
                   table_view, csv_bytes>>

\* if not region_df.empty: capacity_stats = ...; bar_chart  else: warning
CapacityByFuel ==
    /\ pc = "stats"
    /\ IF region_df # <<>>
       THEN /\ capacity_stats' \in SortValuesDescending(GroupBySum(region_df))
            /\ UNCHANGED warning
       ELSE /\ warning' = TRUE
            /\ UNCHANGED capacity_stats
    /\ pc' = "kpis"
    /\ UNCHANGED <<csv_file, cache, ui_country, ui_fuels, browser_fuels, screen_country,
                   screen_fuels, screen_map, finished_msg, failed_at, df,
                   countries, selected_country, available_fuels, selected_fuels,
                   region_df, kpis, map_location, groups, table_view, csv_bytes>>

\* if not region_df.empty: k1.metric, k2.metric, k3.metric
TopMetrics ==
    /\ pc = "kpis"
    /\ kpis' = IF region_df # <<>>
               THEN <<Kpis(region_df, capacity_stats)>>
               ELSE kpis
    /\ pc' = "map"
    /\ UNCHANGED <<csv_file, cache, ui_country, ui_fuels, browser_fuels, screen_country,
                   screen_fuels, screen_map, finished_msg, failed_at, df,
                   countries, selected_country, available_fuels, selected_fuels,
                   region_df, capacity_stats, warning, map_location, groups,
                   table_view, csv_bytes>>

\* avg_lat, avg_lon = ...mean(); m = folium.Map(location=[avg_lat, avg_lon]).
\* The means go to folium.Map unchecked.  What folium does with a NaN
\* location depends on the installed release: it rejects it with a
\* ValueError, or it builds the map around it.  The exception ends the run
\* after the sidebar was rendered; the server keeps its widget values.
MapInitialization ==
    /\ pc = "map"
    /\ LET avg_lat == Mean(Column(region_df, "latitude"))
           avg_lon == Mean(Column(region_df, "longitude"))
       IN  /\ map_location' = <<[lat |-> avg_lat, lon |-> avg_lon]>>
           /\ \/ /\ pc' = "markers"
                 /\ UNCHANGED <<failed_at, finished_msg>>
              \/ /\ IsNaN(avg_lat) \/ IsNaN(avg_lon)
                 /\ pc' = "failed"
                 /\ failed_at' = "map"
                 /\ finished_msg' = <<{"sidebar"}>>
    /\ UNCHANGED <<csv_file, cache, ui_country, ui_fuels, browser_fuels,
                   screen_map, screen_country,
                   screen_fuels, df, countries,
                   selected_country, available_fuels, selected_fuels, region_df,
                   capacity_stats, warning, kpis, groups, table_view, csv_bytes>>

\* for fuel in selected_fuels: ... group.add_to(m); the legend;
\* st_folium(m, ...) puts the map on screen.
Markers ==
    /\ pc = "markers"
    /\ groups' = FeatureGroups(region_df, selected_fuels)
    /\ screen_map' = TRUE
    /\ pc' = "export"
    /\ UNCHANGED <<csv_file, cache, ui_country, ui_fuels, browser_fuels, screen_country,
                   screen_fuels, finished_msg, failed_at, df,
                   countries, selected_country, available_fuels, selected_fuels,
                   region_df, capacity_stats, warning, kpis, map_location,
                   table_view, csv_bytes>>

\* st.dataframe(region_df.sort_values('capacity_mw', ascending=False));
\* csv = region_df.to_csv(index=False).encode('utf-8'); st.download_button
RawDataExport ==
    /\ pc = "export"
    /\ table_view' \in SortValuesDescending(region_df)
    /\ csv_bytes' = <<ToCsv(region_df)>>
    /\ pc' = "credits"
    /\ UNCHANGED <<csv_file, cache, ui_country, ui_fuels, browser_fuels, screen_country,
                   screen_fuels, screen_map, finished_msg, failed_at, df,
                   countries, selected_country, available_fuels, selected_fuels,
                   region_df, capacity_stats, warning, kpis, map_location,
                   groups>>

\* The credits (st.markdown, st.columns, st.caption) are the last calls of
\* the script: the run ends, the server drops the values of the multiselects
\* the run did not render and tells the browser that the run has ended.
Credits ==
    /\ pc = "credits"
    /\ ui_fuels' = DropStale(ui_fuels, available_fuels)
    /\ finished_msg' = <<{"sidebar", "map"}>>
    /\ pc' = "done"
    /\ UNCHANGED <<csv_file, cache, ui_country, browser_fuels, screen_country,
                   screen_fuels, screen_map, failed_at, df,
                   countries, selected_country, available_fuels, selected_fuels,
                   region_df, capacity_stats, warning, kpis, map_location,
                   groups, table_view, csv_bytes>>

\* The browser handles the message that a run has ended: it removes the
\* elements that run did not render and drops the values it holds for
\* multiselects that are not on screen.  The server's run, if one is under
\* way, is not touched.
BrowserFinished ==
    /\ finished_msg # <<>>
    /\ finished_msg' = <<>>
    /\ screen_map' = ("map" \in finished_msg[1])
    /\ IF "sidebar" \in finished_msg[1]
       THEN /\ browser_fuels' =
                  DropStale(browser_fuels, screen_fuels[1].options)
            /\ UNCHANGED <<screen_country, screen_fuels>>
       ELSE /\ browser_fuels' = {}
            /\ screen_country' = <<>>
            /\ screen_fuels' = <<>>
    /\ UNCHANGED <<csv_file, cache, ui_country, ui_fuels, pc, failed_at, df,
                   countries, selected_country, available_fuels, selected_fuels,
                   region_df, capacity_stats, warning, kpis, map_location,
                   groups, table_view, csv_bytes>>

\* The user picks another country in the selectbox on screen, which the run
\* in progress or an earlier one has rendered: the run in progress stops
\* where it is and the script reruns from the top.
ChooseCountry ==
    /\ screen_country # <<>>
    /\ \E c \in Range(screen_country[1].options) \ {screen_country[1].value} :
          /\ ui_country' = <<c>>
          /\ screen_country' = <<[screen_country[1] EXCEPT !.value = c]>>
    /\ ui_fuels' = Receive(ui_fuels, browser_fuels)
    /\ FreshRun
    /\ UNCHANGED <<csv_file, cache, browser_fuels, screen_fuels, screen_map,
                   finished_msg>>

\* The user toggles one fuel of the multiselect on screen: the browser
\* stores the new value under that multiselect's identity and the script
\* reruns.
ToggleFuel ==
    /\ screen_fuels # <<>>
    /\ \E f \in Range(screen_fuels[1].options) :
          LET choice == Toggle(screen_fuels[1].value, f)
          IN  /\ browser_fuels' =
                    SetValue(browser_fuels, screen_fuels[1].options, choice)
              /\ screen_fuels' = <<[screen_fuels[1] EXCEPT !.value = choice]>>
    /\ ui_fuels' = Receive(ui_fuels, browser_fuels')
    /\ FreshRun
    /\ UNCHANGED <<csv_file, cache, ui_country, screen_country, screen_map,
                   finished_msg>>

\* The user moves the map on screen (or clicks "Download CSV" below it): the
\* script reruns with the selections the browser holds.
ComponentRerun ==
    /\ screen_map
    /\ ui_fuels' = Receive(ui_fuels, browser_fuels)
    /\ FreshRun
    /\ UNCHANGED <<csv_file, cache, ui_country, browser_fuels, screen_country,
                   screen_fuels, screen_map, finished_msg>>

Next ==
    \/ Load
    \/ CountrySelector
    \/ FuelFilter
    \/ Filter
    \/ CapacityByFuel
    \/ TopMetrics
    \/ MapInitialization
    \/ Markers
    \/ RawDataExport
    \/ Credits
    \/ BrowserFinished
    \/ ChooseCountry
    \/ ToggleFuel
    \/ ComponentRerun

Spec == Init /\ [][Next]_vars

-----------------------------------------------------------------------------
(* Where a run stands.                                                     *)

\* region_df is bound.
Filtered ==
    \/ pc \in {"stats", "kpis", "map", "markers", "export", "credits", "done"}
    \/ pc = "failed" /\ failed_at = "map"

\* The capacity-by-fuel block of the sidebar has run.
Summarised ==
    \/ pc \in {"kpis", "map", "markers", "export", "credits", "done"}
    \/ pc = "failed" /\ failed_at = "map"

\* The KPI block has run.
MetricsDue ==
    \/ pc \in {"map", "markers", "export", "credits", "done"}
    \/ pc = "failed" /\ failed_at = "map"

Matches(row) ==
    /\ row.country_long = selected_country
    /\ \E k \in 1..Len(selected_fuels) : selected_fuels[k] = row.primary_fuel

-----------------------------------------------------------------------------
(* C1: the filtered table holds exactly the records of the dataset with    *)
(* the selected country and a selected fuel, in the dataset's row order,   *)
(* and nothing else; with no fuel selected it is empty.                    *)
C1_FilterExact ==
    Filtered =>
        /\ \A i \in 1..Len(region_df) :
              /\ Matches(region_df[i])
              /\ \E j \in 1..Len(df) : df[j] = region_df[i]
        /\ \A j \in 1..Len(df) :
              Matches(df[j]) =>
                 Cardinality({ i \in 1..Len(region_df) : region_df[i] = df[j] }) = 1
        /\ \A i, k \in 1..Len(region_df) :
              i < k => \E j, l \in 1..Len(df) :
                          j < l /\ df[j] = region_df[i] /\ df[l] = region_df[k]
        /\ selected_fuels = <<>> => region_df = <<>>

\* A filtered table that kept a record and left out both a record of another
\* country and a record of the selected country with a deselected fuel.
C1_Witness ==
    /\ Filtered
    /\ region_df # <<>>
    /\ \E j \in 1..Len(df) : df[j].country_long # selected_country
    /\ \E j \in 1..Len(df) :
          /\ df[j].country_long = selected_country
          /\ ~ Matches(df[j])

-----------------------------------------------------------------------------
(* C2: the fuel summary has exactly one entry per distinct primary_fuel of *)
(* the filtered records, and its totals add up to the records' summed      *)
(* capacity_mw.  (For an empty filtered set the script computes no         *)
(* summary: there is no entry and nothing to add up.)                      *)
C2_SummaryConserves ==
    Summarised =>
        /\ \A i \in 1..Len(region_df) :
              Cardinality({ k \in 1..Len(capacity_stats) :
                  capacity_stats[k].primary_fuel = region_df[i].primary_fuel }) = 1
        /\ \A k \in 1..Len(capacity_stats) :
              \E i \in 1..Len(region_df) :
                  region_df[i].primary_fuel = capacity_stats[k].primary_fuel
        /\ SumSeq(Column(capacity_stats, "capacity_mw"))
              = SumSeq(Column(region_df, "capacity_mw"))

\* A summary of several fuels, one of them with more than one record.
C2_Witness ==
    /\ Summarised
    /\ Len(capacity_stats) >= 2
    /\ Len(region_df) > Len(capacity_stats)

-----------------------------------------------------------------------------
(* Order of the fuel summary (C3).                                         *)

NonIncreasing(stats) ==
    \A i, j \in 1..Len(stats) :
        i < j => stats[i].capacity_mw >= stats[j].capacity_mw

\* Position in the filtered records of the first record of a fuel.
FirstSeen(fuel) ==
    CHOOSE i \in 1..Len(region_df) :
        /\ region_df[i].primary_fuel = fuel
        /\ \A j \in 1..(i - 1) : region_df[j].primary_fuel # fuel

MainSourceIsFirst ==
    kpis # <<>> =>
        /\ capacity_stats # <<>>
        /\ kpis[1].main_source = capacity_stats[1].primary_fuel

\* C3 as stated: the fuel summary is non-increasing by summed capacity, fuels
\* of equal summed capacity are in first-encountered order, and the 'Main
\* Source' KPI is the first entry.
C3_AsClaimed ==
    /\ Summarised =>
          /\ NonIncreasing(capacity_stats)
          /\ \A i, j \in 1..Len(capacity_stats) :
                (i < j /\ capacity_stats[i].capacity_mw = capacity_stats[j].capacity_mw)
                   => FirstSeen(capacity_stats[i].primary_fuel)
                         < FirstSeen(capacity_stats[j].primary_fuel)
    /\ MainSourceIsFirst

\* C3 amended: the fuel summary is non-increasing by summed capacity, and the
\* 'Main Source' KPI, shown for every non-empty filtered set, is the first
\* entry of that ordering; no order is promised among equal sums.
C3_SortedDescending ==
    /\ Summarised => NonIncreasing(capacity_stats)
    /\ MainSourceIsFirst
    /\ (MetricsDue /\ region_df # <<>>) => kpis # <<>>

\* The KPIs are shown for a summary whose first two entries have equal sums.
C3_Witness ==
    /\ pc = "done"
    /\ kpis # <<>>
    /\ Len(capacity_stats) >= 3
    /\ capacity_stats[1].capacity_mw = capacity_stats[2].capacity_mw
    /\ capacity_stats[2].capacity_mw > capacity_stats[3].capacity_mw

-----------------------------------------------------------------------------
(* C4 as stated: with zero filtered records the metrics are still reported, *)
(* as plantCount 0, totalMw 0 and topFuel "N/A"; and for every filtered     *)
(* set the reported plantCount is the number of filtered records.           *)
C4_AsClaimed ==
    MetricsDue =>
        /\ kpis # <<>>
        /\ kpis[1].plant_count = Len(region_df)
        /\ region_df = <<>> =>
              /\ kpis[1].total_mw = 0
              /\ kpis[1].main_source = "N/A"

-----------------------------------------------------------------------------
(* C5 as stated: a NaN latitude or longitude is never passed on as the      *)
(* map's centre location.                                                   *)
C5_AsClaimed ==
    map_location # <<>> =>
        /\ ~ IsNaN(map_location[1].lat)
        /\ ~ IsNaN(map_location[1].lon)

-----------------------------------------------------------------------------
(* Order of the exported records (C6).                                     *)

\* The export line written for a row: the row's cells as text.
LineOf(line, row) ==
    /\ line.name = row.name
    /\ line.country_long = row.country_long
    /\ line.primary_fuel = row.primary_fuel
    /\ ParseNumber(line.capacity_mw) = row.capacity_mw
    /\ ParseNumber(line.latitude) = row.latitude
    /\ ParseNumber(line.longitude) = row.longitude

\* C6 as stated: the CSV offered for download lists the filtered records
\* ordered by capacity_mw descending.
C6_AsClaimed ==
    csv_bytes # <<>> =>
        LET lines == csv_bytes[1].lines
        IN  /\ Len(lines) = Len(region_df)
            /\ \A i, j \in 1..Len(lines) :
                  i < j => ParseNumber(lines[i].capacity_mw)
                              >= ParseNumber(lines[j].capacity_mw)

\* C6 amended: the CSV offered for download lists the filtered records in
\* the filtered table's own order (the dataset's row order), one line per
\* record; only the table shown on screen is ordered by capacity_mw
\* descending.
C6_ExportInRowOrder ==
    csv_bytes # <<>> =>
        LET lines == csv_bytes[1].lines
        IN  /\ Len(lines) = Len(region_df)
            /\ \A i \in 1..Len(lines) : LineOf(lines[i], region_df[i])
            /\ Len(table_view) = Len(region_df)
            /\ \A i \in 1..Len(region_df) :
                  \E k \in 1..Len(table_view) : table_view[k] = region_df[i]
            /\ NonIncreasing(table_view)

\* An export of records whose capacities rise along the dataset's row order.
C6_Witness ==
    /\ pc = "done"
    /\ csv_bytes # <<>>
    /\ \E i, j \in 1..Len(region_df) :
          i < j /\ region_df[i].capacity_mw < region_df[j].capacity_mw

-----------------------------------------------------------------------------
(* C7 as stated: the country selector starts on "India" whenever India is   *)
(* one of the dataset's countries, and a dataset without India still gets   *)
(* a valid country selection instead of a failure at start-up.              *)
C7_AsClaimed ==
    /\ (pc \notin {"load", "country"} /\ ui_country = <<>>
           /\ "India" \in Range(countries))
          => selected_country = "India"
    /\ (pc \notin {"load", "country"} /\ countries # <<>>
           /\ "India" \notin Range(countries))
          => /\ failed_at # "country"
             /\ selected_country \in Range(countries)

-----------------------------------------------------------------------------
NumericText == {"20", "50", "70", "100"}

Complete(line) ==
    /\ line.latitude \in NumericText
    /\ line.longitude \in NumericText
    /\ line.capacity_mw \in NumericText

(* C8: after loading, every record of the dataset has a non-null latitude, *)
(* longitude and capacity_mw, a line whose capacity_mw is not a number is  *)
(* excluded like one whose cell is empty, and the surviving rows keep the  *)
(* file's relative line order.                                             *)
C8_LoadedComplete ==
    cache # <<>> =>
        LET data == cache[1]
        IN  /\ \A i \in 1..Len(data) :
                  /\ data[i].latitude >= 0
                  /\ data[i].longitude >= 0
                  /\ data[i].capacity_mw >= 0
                  /\ data[i].idx + 1 \in 1..Len(csv_file)
                  /\ Complete(csv_file[data[i].idx + 1])
                  /\ data[i].name = csv_file[data[i].idx + 1].name
                  /\ data[i].country_long = csv_file[data[i].idx + 1].country_long
                  /\ data[i].primary_fuel = csv_file[data[i].idx + 1].primary_fuel
            /\ \A n \in 1..Len(csv_file) :
                  Complete(csv_file[n]) =>
                      \E i \in 1..Len(data) : data[i].idx = n - 1
            /\ \A i, j \in 1..Len(data) : i < j => data[i].idx < data[j].idx

\* A loaded dataset that kept lines on both sides of a line it dropped for
\* its unparseable capacity.
C8_Witness ==
    /\ cache # <<>>
    /\ Len(cache[1]) = 2
    /\ Len(csv_file) = 3
    /\ csv_file[2].capacity_mw = "abc"

-----------------------------------------------------------------------------
TableColor(fuel) ==
    CASE fuel = "Nuclear" -> "purple"
      [] fuel = "Coal" -> "black"
      [] fuel = "Hydro" -> "blue"
      [] fuel = "Solar" -> "orange"
      [] fuel = "Gas" -> "red"
      [] fuel = "Wind" -> "green"
      [] OTHER -> "gray"

MarkerSlots ==
    { <<g, m>> \in (1..Len(groups)) \X (1..MaxRows + 1) :
        m <= Len(groups[g].markers) }

(* C9: every filtered record has exactly one map marker, in the feature    *)
(* group of its own primary_fuel, coloured by the fixed table (Nuclear     *)
(* purple, Coal black, Hydro blue, Solar orange, Gas red, Wind green) or   *)
(* gray for any other fuel.                                                *)
C9_OneMarkerPerRecord ==
    pc \in {"export", "credits", "done"} =>
        /\ Cardinality(MarkerSlots) = Len(region_df)
        /\ \A i \in 1..Len(region_df) :
              LET mine == { s \in MarkerSlots :
                              groups[s[1]].markers[s[2]].row = region_df[i].idx }
              IN  /\ Cardinality(mine) = 1
                  /\ \A s \in mine :
                        /\ groups[s[1]].name = region_df[i].primary_fuel
                        /\ groups[s[1]].markers[s[2]].color
                              = TableColor(region_df[i].primary_fuel)
                        /\ groups[s[1]].markers[s[2]].location
                              = <<region_df[i].latitude, region_df[i].longitude>>

\* A map with a marker of a fuel outside the table beside markers of two
\* fuels of the table.
C9_Witness ==
    /\ pc = "done"
    /\ \E s \in MarkerSlots : groups[s[1]].markers[s[2]].color = "gray"
    /\ \E s \in MarkerSlots : groups[s[1]].markers[s[2]].color = "black"
    /\ \E s \in MarkerSlots : groups[s[1]].markers[s[2]].color = "orange"

-----------------------------------------------------------------------------
(* Freshness of the views (C10).                                           *)

\* The criteria the user has in front of them are the ones the run computed
\* from: both selectors on screen show the values the script was handed.
ScreenShowsCriteria ==
    /\ screen_country = <<[options |-> countries, value |-> selected_country]>>
    /\ screen_fuels = <<[options |-> available_fuels, value |-> selected_fuels]>>

\* The views of a completed run are what the cached dataset and the criteria
\* handed to the script give.
ViewsFromCriteria ==
    /\ df = cache[1]
    /\ selected_country \in Range(countries)
    /\ Range(selected_fuels) \subseteq Range(available_fuels)
    /\ region_df = RegionDf(cache[1], selected_country, selected_fuels)
    /\ IF region_df = <<>>
       THEN /\ capacity_stats = <<>>
            /\ kpis = <<>>
       ELSE /\ { capacity_stats[k].primary_fuel : k \in 1..Len(capacity_stats) }
                  = { region_df[i].primary_fuel : i \in 1..Len(region_df) }
            /\ \A k, l \in 1..Len(capacity_stats) :
                  capacity_stats[k].primary_fuel = capacity_stats[l].primary_fuel
                     => k = l
            /\ \A k \in 1..Len(capacity_stats) :
                  capacity_stats[k].capacity_mw
                     = SumSeq(Column(SelectSeq(region_df, LAMBDA r :
                          r.primary_fuel = capacity_stats[k].primary_fuel),
                          "capacity_mw"))
            /\ NonIncreasing(capacity_stats)
            /\ kpis = <<Kpis(region_df, capacity_stats)>>
    /\ csv_bytes = <<ToCsv(region_df)>>

====
